---------------------------- MODULE Spec2Model ----------------------------
(***************************************************************************)
(* A model of caldav-mcp: the lazily initialised account registry          *)
(* (server.py), the URL normaliser and the per-account CalDAV operations   *)
(* (client.py), the account resolver and the event tool handlers           *)
(* (tools/events.py) and the calendar listing tool (tools/calendars.py).   *)
(*                                                                         *)
(* Strings are sequences of one-character strings, so that startswith,     *)
(* find and slicing are computed as the code computes them.                *)
(***************************************************************************)
EXTENDS Integers, Sequences, FiniteSets, TLC

(***************************************************************************)
(* Bounds of the model.                                                    *)
(***************************************************************************)
\* longest text that follows the drawn prefix of a URL handed to _normalize_url
MaxBody == 4
\* configured accounts (the length of Settings.parse_accounts())
NumAccounts == 2
\* tool invocations that may be in flight together
MaxCalls == 2
\* tool invocations of one run
MaxInvocations == 2
\* latest time (in days) of the tool arguments
MaxTime == 1
\* events one run creates
MaxCreates == 2
\* calendars per account and objects per calendar of the drawn inputs
MaxCals == 2
MaxObjs == 3

\* timedelta(days=30), tools/events.py
DefaultRangeDays == 30
\* datetime.max (9999-12-31), in days after datetime.min: a datetime plus a
\* timedelta beyond it raises OverflowError
LastDay == 3652058

(***************************************************************************)
(* String helpers (Python str primitives).                                 *)
(***************************************************************************)
\* s.startswith(p)
StartsWith(s, p) ==
    /\ Len(s) >= Len(p)
    /\ \A i \in 1..Len(p) : s[i] = p[i]

\* s[i:] for a 0-based start index i
SliceFrom(s, i) == SubSeq(s, i + 1, Len(s))

\* s[:i] for a 0-based end index i
SliceTo(s, i) == SubSeq(s, 1, i)

\* 0-based s.find(ch, start) for one character; -1 when absent
Find(s, ch, start) ==
    LET hits == {i \in (start + 1)..Len(s) : s[i] = ch}
    IN  IF hits = {} THEN -1 ELSE (CHOOSE i \in hits : \A j \in hits : i <= j) - 1

\* 0-based s.rfind(ch); -1 when absent
RFind(s, ch) ==
    LET hits == {i \in 1..Len(s) : s[i] = ch}
    IN  IF hits = {} THEN -1 ELSE (CHOOSE i \in hits : \A j \in hits : i >= j) - 1

HTTP == <<"h", "t", "t", "p", ":", "/", "/">>
HTTPS == <<"h", "t", "t", "p", "s", ":", "/", "/">>

(***************************************************************************)
(* urllib.parse.urlparse(url).path for a url that starts with http:// or   *)
(* https:// (the only urls _normalize_url hands to it).  The scheme is     *)
(* split at the first ':', the network location runs from the "//" to the  *)
(* first of "/", "?", "#", then the fragment is cut at the first "#", the  *)
(* query at the first "?", and, http and https being schemes that use      *)
(* parameters, the parameters at the first ";" of the last path segment.   *)
(***************************************************************************)
\* min(S), or otherwise when S is empty
MinOr(S, otherwise) ==
    IF S = {} THEN otherwise ELSE CHOOSE i \in S : \A j \in S : i <= j

\* _splitnetloc(url, 2): what follows the network location
SplitNetloc(rest) ==
    SliceFrom(rest, MinOr({Find(rest, d, 2) : d \in {"/", "?", "#"}} \ {-1},
                          Len(rest)))

AfterNetloc(rest) ==
    IF StartsWith(rest, <<"/", "/">>) THEN SplitNetloc(rest) ELSE rest

\* s[:i] when i is an index found, s when it is -1
CutIndex(s, i) == IF i < 0 THEN s ELSE SliceTo(s, i)

\* s.split(ch, 1)[0]
CutAt(s, ch) == CutIndex(s, Find(s, ch, 0))

\* _splitparams(url)[0]
SplitParams(s) ==
    CutIndex(s, IF Find(s, "/", 0) # -1
                THEN Find(s, ";", RFind(s, "/"))
                ELSE Find(s, ";", 0))

UrlParsePath(url) ==
    SplitParams(CutAt(CutAt(AfterNetloc(SliceFrom(url, Find(url, ":", 0) + 1)),
                            "#"), "?"))

\* a slip: a url that starts with "//" has its network location dropped too
Mut_normalize_url_netloc(url) ==
    IF StartsWith(url, HTTP) \/ StartsWith(url, HTTPS)
    THEN UrlParsePath(url)
    ELSE IF StartsWith(url, <<"/", "/">>) THEN SplitNetloc(url) ELSE url

\* CalDAVAccount._normalize_url
_normalize_url(url) ==
    IF StartsWith(url, HTTP) \/ StartsWith(url, HTTPS)
    THEN UrlParsePath(url)
    ELSE url

(***************************************************************************)
(* Account objects and the resolver.                                       *)
(***************************************************************************)
\* Python's None, for values that are otherwise a string, a text (a sequence
\* of characters or parts), a time or an account
None == "None"
Absent == <<>>
NoTime == -1
NoAccount == [cfg |-> 0, obj |-> 0, name |-> Absent, connected |-> FALSE,
              calendars |-> <<>>]

\* CalendarInfo(name, url, account_name)
CalendarInfo(name, url, account_name) ==
    [name |-> name, url |-> url, account_name |-> account_name]

\* the name of the i-th configured account (CalDAVAccountConfig.name)
AccountName(i) == <<"Account", i>>

\* the comparison of find_account_for_calendar and get_calendar_by_url
CalendarMatches(calendar, normalized_url) ==
    _normalize_url(calendar.url) = normalized_url

\* the inner loop of find_account_for_calendar: for calendar in account.calendars
RECURSIVE AnyCalendarMatches(_, _, _)
AnyCalendarMatches(calendars, normalized_url, k) ==
    IF k > Len(calendars) THEN FALSE
    ELSE IF CalendarMatches(calendars[k], normalized_url) THEN TRUE
    ELSE AnyCalendarMatches(calendars, normalized_url, k + 1)

\* the outer loop of find_account_for_calendar: for account in accounts
RECURSIVE FindAccountLoop(_, _, _)
FindAccountLoop(accounts, normalized_url, i) ==
    IF i > Len(accounts) THEN NoAccount
    ELSE IF AnyCalendarMatches(accounts[i].calendars, normalized_url, 1)
         THEN accounts[i]
         ELSE FindAccountLoop(accounts, normalized_url, i + 1)

\* a slip: the scan keeps the last account that matches
RECURSIVE Mut_FindAccountLast(_, _, _)
Mut_FindAccountLast(accounts, normalized_url, i) ==
    IF i < 1 THEN NoAccount
    ELSE IF AnyCalendarMatches(accounts[i].calendars, normalized_url, 1)
         THEN accounts[i]
         ELSE Mut_FindAccountLast(accounts, normalized_url, i - 1)

Mut_find_account_last(accounts, calendar_url) ==
    Mut_FindAccountLast(accounts, _normalize_url(calendar_url), Len(accounts))

\* find_account_for_calendar
find_account_for_calendar(accounts, calendar_url) ==
    FindAccountLoop(accounts, _normalize_url(calendar_url), 1)

\* the loop of CalDAVAccount.get_calendar_by_url: the position, in the account's
\* cached list, of the calendar it opens; 0 stands for None
RECURSIVE GetCalendarLoop(_, _, _)
GetCalendarLoop(calendars, normalized_url, k) ==
    IF k > Len(calendars) THEN 0
    ELSE IF CalendarMatches(calendars[k], normalized_url) THEN k
    ELSE GetCalendarLoop(calendars, normalized_url, k + 1)

\* CalDAVAccount.get_calendar_by_url
get_calendar_by_url(account, url) ==
    IF ~account.connected THEN 0
    ELSE GetCalendarLoop(account.calendars, _normalize_url(url), 1)

(***************************************************************************)
(* The CalDAV servers (the environment).  Account 1's server lists its     *)
(* calendar under an absolute url; account 2's server lists two calendars  *)
(* under path-only urls, the first of which normalises like account 1's.   *)
(***************************************************************************)
SrvCalendars(i) ==
    IF i % 2 = 1
    THEN << [name |-> "Work", url |-> HTTP \o <<"x", "/", "a">>] >>
    ELSE << [name |-> None, url |-> <<"/", "a">>],
            [name |-> "Home", url |-> <<"/", "b">>] >>

Configs == 1..NumAccounts
Calls == 1..MaxCalls
Times == 0..MaxTime

\* a stored calendar object: its iCalendar text parses or not, and holds components
Component(name, uid, summary, dtstart, dtend, description, location) ==
    [name |-> name, uid |-> uid, summary |-> summary,
     dtstart |-> dtstart, dtend |-> dtend,
     description |-> description, location |-> location]

Object(data, comps, origin) == [data |-> data, comps |-> comps, origin |-> origin]

ObjGarbage == Object("garbage", <<>>, 0)
ObjTimezone == Object("ical", <<Component("VTIMEZONE", Absent, None, NoTime, NoTime, None, None)>>, 0)
ObjOld == Object("ical", <<Component("VEVENT", <<"A">>, "Old", 0, 1, None, None)>>, 0)
ObjNoEnd == Object("ical", <<Component("VEVENT", <<"B">>, "Open", 0, NoTime, None, None)>>, 0)
ObjSeries ==
    Object("ical", <<Component("VEVENT", <<"C">>, "Series", 0, 1, None, "Room"),
                     Component("VEVENT", <<"C">>, "Moved", 1, NoTime, None, None)>>, 0)

(***************************************************************************)
(* CalDAVAccount.connect: the account object a successful connect leaves.  *)
(* obj is the identity of the object (the invocation that constructed it). *)
(***************************************************************************)
ConnectedAccount(i, obj) ==
    [cfg |-> i, obj |-> obj, name |-> AccountName(i), connected |-> TRUE,
     calendars |->
        [k \in 1..Len(SrvCalendars(i)) |->
            CalendarInfo(IF SrvCalendars(i)[k].name = None
                         THEN "Unnamed Calendar"
                         ELSE SrvCalendars(i)[k].name,
                         SrvCalendars(i)[k].url,
                         AccountName(i))]]

(***************************************************************************)
(* CalDAVAccount.list_events: the parse loop over the objects the server   *)
(* returned.                                                               *)
(***************************************************************************)
EventInfo(uid, summary, start, end, calendar_url, description, location) ==
    [uid |-> uid, summary |-> summary, start |-> start, end |-> end,
     calendar_url |-> calendar_url, description |-> description,
     location |-> location]

\* str(component.get("summary", ""))
GetStr(v) == IF v = None THEN "" ELSE v

\* str(component.get("uid", "")): a missing uid reads as the empty text
GetUid(v) == IF v = Absent THEN <<>> ELSE v

\* str(x) if x else None
StrOrNone(v) == IF v = None \/ v = "" THEN None ELSE v

\* component.get("dtstart").dt raises AttributeError when the property is missing
Extractable(comp) == comp.dtstart # NoTime /\ comp.dtend # NoTime

\* the body of "for component in ical.walk()": the events appended before the
\* walk ends or a component raises
RECURSIVE WalkEvents(_, _, _, _)
WalkEvents(comps, j, calendar_url, acc) ==
    IF j > Len(comps) THEN [raised |-> FALSE, events |-> acc]
    ELSE IF comps[j].name # "VEVENT"
         THEN WalkEvents(comps, j + 1, calendar_url, acc)
    ELSE IF ~Extractable(comps[j]) THEN [raised |-> TRUE, events |-> acc]
    ELSE WalkEvents(comps, j + 1, calendar_url,
            Append(acc, EventInfo(GetUid(comps[j].uid), GetStr(comps[j].summary),
                                  comps[j].dtstart, comps[j].dtend, calendar_url,
                                  StrOrNone(comps[j].description),
                                  StrOrNone(comps[j].location))))

\* a slip: an object that fails to parse ends the listing (break for continue)
RECURSIVE Mut_ListLoop_break(_, _, _, _)
Mut_ListLoop_break(objs, i, calendar_url, result) ==
    IF i > Len(objs) THEN result
    ELSE IF objs[i].data = "garbage" THEN result
    ELSE LET w == WalkEvents(objs[i].comps, 1, calendar_url, result)
         IN  IF w.raised THEN w.events
             ELSE Mut_ListLoop_break(objs, i + 1, calendar_url, w.events)

\* "for event in events": Calendar.from_ical raises on text that is no iCalendar;
\* any exception is logged and the loop goes on with the next object
RECURSIVE ListLoop(_, _, _, _)
ListLoop(objs, i, calendar_url, result) ==
    IF i > Len(objs) THEN result
    ELSE IF objs[i].data = "garbage"
         THEN ListLoop(objs, i + 1, calendar_url, result)
    ELSE ListLoop(objs, i + 1, calendar_url,
                  WalkEvents(objs[i].comps, 1, calendar_url, result).events)

\* calendar.date_search(start, end, expand=True): the server returns, in its
\* order, the objects with an event that overlaps [start, end), and the objects
\* it cannot place in time
InRange(o, qs, qe) ==
    \/ o.data = "garbage"
    \/ \A j \in 1..Len(o.comps) : o.comps[j].name # "VEVENT"
    \/ \E j \in 1..Len(o.comps) :
          /\ o.comps[j].name = "VEVENT"
          /\ \/ ~Extractable(o.comps[j])
             \/ o.comps[j].dtstart < qe /\ o.comps[j].dtend > qs

DateSearch(objs, qs, qe) == SelectSeq(objs, LAMBDA o : InRange(o, qs, qe))

(***************************************************************************)
(* CalDAVAccount.create_event: the object saved to the calendar.           *)
(***************************************************************************)
\* a slip: dtend is written from start
Mut_NewEventObject_end(uid, summary, start, end, description, location, origin) ==
    Object("ical",
           <<Component("VEVENT", uid, summary, start, start,
                       StrOrNone(description), StrOrNone(location))>>,
           origin)

NewEventObject(uid, summary, start, end, description, location, origin) ==
    Object("ical",
           <<Component("VEVENT", uid, summary, start, end,
                       StrOrNone(description), StrOrNone(location))>>,
           origin)

(***************************************************************************)
(* CalDAVAccount.delete_event: the scan.  failing is the set of positions  *)
(* whose event.delete() the server refuses.  The result is the position    *)
(* deleted (0: none) and the number of objects the scan visited.           *)
(***************************************************************************)
\* the position of the first VEVENT of comps, from j on, that carries uid; 0: none
RECURSIVE MatchingComponent(_, _, _)
MatchingComponent(comps, j, uid) ==
    IF j > Len(comps) THEN 0
    ELSE IF comps[j].name = "VEVENT" /\ GetUid(comps[j].uid) = uid THEN j
    ELSE MatchingComponent(comps, j + 1, uid)

Carries(o, uid) == o.data # "garbage" /\ MatchingComponent(o.comps, 1, uid) # 0

RECURSIVE DeleteLoop(_, _, _, _)
DeleteLoop(objs, i, uid, failing) ==
    IF i > Len(objs) THEN [deleted |-> 0, scanned |-> Len(objs)]
    ELSE IF objs[i].data = "garbage" THEN DeleteLoop(objs, i + 1, uid, failing)
    ELSE IF MatchingComponent(objs[i].comps, 1, uid) = 0
         THEN DeleteLoop(objs, i + 1, uid, failing)
    ELSE IF i \in failing THEN DeleteLoop(objs, i + 1, uid, failing)
    ELSE [deleted |-> i, scanned |-> i]

\* event.delete() on the server: the object at position i leaves the calendar
RemoveAt(objs, i) == SubSeq(objs, 1, i - 1) \o SubSeq(objs, i + 1, Len(objs))

(***************************************************************************)
(* Tool arguments.  A date argument is an ISO 8601 text or a text that     *)
(* datetime.fromisoformat rejects.                                         *)
(***************************************************************************)
Iso(t) == <<"iso", t>>
BadDate == <<"not a date">>
IsIso(text) == text # BadDate /\ text # Absent
FromIso(text) == text[2]

UrlA == <<"/", "a">>
UrlB == HTTP \o <<"y", "/", "b">>
UrlUnknown == <<"/", "z">>
ToolUrls == {UrlA, UrlB, UrlUnknown}
DateArgs == {Iso(t) : t \in Times} \cup {BadDate}
UuidSpace == {<<"uuid4", n>> : n \in 1..MaxCreates}
DeleteUids == {<<"A">>, <<"C">>, <<"missing">>} \cup UuidSpace

\* ', '.join(c.url for a in accounts for c in a.calendars), as the list of its parts
RECURSIVE JoinUrls(_, _, _)
JoinUrls(accounts, i, k) ==
    IF i > Len(accounts) THEN <<>>
    ELSE IF k > Len(accounts[i].calendars) THEN JoinUrls(accounts, i + 1, 1)
    ELSE <<accounts[i].calendars[k].url>> \o JoinUrls(accounts, i, k + 1)

\* an error message: its text, the url or uid it quotes, and the urls it lists
Message(text, quoted, listed) == [text |-> text, quoted |-> quoted, listed |-> listed]
NoMessage == Message(None, Absent, <<>>)

\* the outcome of a handler: a returned value or a raised error, the server
\* requests it made, the calendar it opened (cfg, cal; 0: none), the content it
\* leaves there and the number of objects it went through
\* query: the range a date_search was sent with; none when none was sent
NoQuery == <<>>

Returned(value, requests, cfg, cal, objs, scanned) ==
    [ok |-> TRUE, value |-> value, message |-> NoMessage, requests |-> requests,
     cfg |-> cfg, cal |-> cal, objs |-> objs, scanned |-> scanned,
     query |-> NoQuery]

Raised(message, requests, cfg, cal, objs, scanned) ==
    [ok |-> FALSE, value |-> Absent, message |-> message, requests |-> requests,
     cfg |-> cfg, cal |-> cal, objs |-> objs, scanned |-> scanned,
     query |-> NoQuery]

\* the outcome of a handler that sent calendar.date_search(start, end)
Queried(out, start, end) == [out EXCEPT !.query = <<start, end>>]

NoAccountText == "No account found for calendar URL: "

\* the message of list_events_tool for a url no account owns
ListNoAccountMessage(accounts, calendar_url) ==
    Message(NoAccountText, calendar_url, JoinUrls(accounts, 1, 1))

\* the message of create_event_tool and of delete_event_tool for such a url
NoAccountMessage(accounts, calendar_url) == Message(NoAccountText, calendar_url, <<>>)

CalendarNotFound(calendar_url) == Message("Calendar not found: ", calendar_url, <<>>)
ServerError == Message("server error", Absent, <<>>)
IsoError == Message("Invalid isoformat string", Absent, <<>>)
RangeError == Message("date value out of range", Absent, <<>>)
EventNotFoundText == "Event with UID not found in calendar"
EventNotFound(uid) == Message(EventNotFoundText, uid, <<>>)
DeletedText(uid) == <<Message("Event deleted successfully", uid, <<>>)>>

\* list_calendars_tool
RECURSIVE list_calendars_tool(_, _, _)
list_calendars_tool(accounts, i, k) ==
    IF i > Len(accounts) THEN <<>>
    ELSE IF k > Len(accounts[i].calendars) THEN list_calendars_tool(accounts, i + 1, 1)
    ELSE <<[account |-> accounts[i].calendars[k].account_name,
            name |-> accounts[i].calendars[k].name,
            url |-> accounts[i].calendars[k].url]>>
         \o list_calendars_tool(accounts, i, k + 1)

\* the dicts list_events_tool returns
EventDicts(events) ==
    [n \in 1..Len(events) |->
        [uid |-> events[n].uid, summary |-> events[n].summary,
         start |-> Iso(events[n].start), end |-> Iso(events[n].end),
         description |-> events[n].description, location |-> events[n].location]]

\* CalDAVAccount.list_events on the calendar k that get_calendar_by_url opened;
\* fault: the server fails the query
ListInCalendar(cfg, k, objs, calendar_url, start, end, fault) ==
    IF k = 0
    THEN Raised(CalendarNotFound(calendar_url), <<>>, cfg, 0, <<>>, 0)
    ELSE IF fault
    THEN Queried(Raised(ServerError, <<"date_search">>, cfg, k, objs, 0),
                 start, end)
    ELSE Queried(Returned(EventDicts(ListLoop(DateSearch(objs, start, end), 1,
                                              calendar_url, <<>>)),
                          <<"date_search">>, cfg, k, objs,
                          Len(DateSearch(objs, start, end))),
                 start, end)

\* the content of calendar k of the account; none for k = 0
Content(st, account, k) == IF k = 0 THEN <<>> ELSE st[account.cfg][k]

AccountListEvents(account, k, calendar_url, start, end, st, fault) ==
    ListInCalendar(account.cfg, k, Content(st, account, k), calendar_url, start,
                   end, fault)

\* list_events_tool from the account the resolver gave
ListForAccount(account, accounts, calendar_url, start, end, st, fault) ==
    IF account = NoAccount
    THEN Raised(ListNoAccountMessage(accounts, calendar_url), <<>>, 0, 0, <<>>, 0)
    ELSE IF ~IsIso(start) \/ (end # Absent /\ ~IsIso(end))
    THEN Raised(IsoError, <<>>, account.cfg, 0, <<>>, 0)
    ELSE IF end = Absent /\ FromIso(start) + DefaultRangeDays > LastDay
    THEN Raised(RangeError, <<>>, account.cfg, 0, <<>>, 0)
    ELSE AccountListEvents(account, get_calendar_by_url(account, calendar_url),
                           calendar_url, FromIso(start),
                           IF end # Absent THEN FromIso(end)
                           ELSE FromIso(start) + DefaultRangeDays,
                           st, fault)

list_events_tool(accounts, calendar_url, start, end, st, fault) ==
    ListForAccount(find_account_for_calendar(accounts, calendar_url), accounts,
                   calendar_url, start, end, st, fault)

\* CalDAVAccount.create_event on the calendar k; uid is what uuid.uuid4 gave,
\* fault: the server fails save_event
CreateInCalendar(cfg, k, objs, calendar_url, object, uid, fault) ==
    IF k = 0
    THEN Raised(CalendarNotFound(calendar_url), <<>>, cfg, 0, <<>>, 0)
    ELSE IF fault
    THEN Raised(ServerError, <<"save_event">>, cfg, k, objs, 0)
    ELSE Returned(uid, <<"save_event">>, cfg, k, Append(objs, object), 0)

AccountCreateEvent(account, k, calendar_url, object, uid, st, fault) ==
    CreateInCalendar(account.cfg, k, Content(st, account, k), calendar_url,
                     object, uid, fault)

\* create_event_tool from the account the resolver gave
CreateForAccount(account, accounts, calendar_url, summary, start, end, description, location, st, fault, uid, origin) ==
    IF account = NoAccount
    THEN Raised(NoAccountMessage(accounts, calendar_url), <<>>, 0, 0, <<>>, 0)
    ELSE IF ~IsIso(start) \/ ~IsIso(end)
    THEN Raised(IsoError, <<>>, account.cfg, 0, <<>>, 0)
    ELSE AccountCreateEvent(account, get_calendar_by_url(account, calendar_url),
                            calendar_url,
                            NewEventObject(uid, summary, FromIso(start),
                                           FromIso(end), description, location,
                                           origin),
                            uid, st, fault)

create_event_tool(accounts, calendar_url, summary, start, end, description, location, st, fault, uid, origin) ==
    CreateForAccount(find_account_for_calendar(accounts, calendar_url), accounts,
                     calendar_url, summary, start, end, description, location,
                     st, fault, uid, origin)

\* the server requests of a delete_event whose scan ended as scan
DeleteRequests(refused) == <<"events">> \o [n \in 1..refused |-> "delete"]

\* a slip: a scan that found nothing returns like one that deleted
Mut_DeleteResult_silent(cfg, k, objs, uid, scan, refused) ==
    IF scan.deleted = 0
    THEN Returned(DeletedText(uid), DeleteRequests(refused), cfg, k, objs,
                  scan.scanned)
    ELSE Returned(DeletedText(uid), Append(DeleteRequests(refused), "delete"),
                  cfg, k, RemoveAt(objs, scan.deleted), scan.scanned)

\* the end of CalDAVAccount.delete_event: the return after event.delete(), or
\* the ValueError after the loop
DeleteResult(cfg, k, objs, uid, scan, refused) ==
    IF scan.deleted = 0
    THEN Raised(EventNotFound(uid), DeleteRequests(refused), cfg, k, objs,
                scan.scanned)
    ELSE Returned(DeletedText(uid), Append(DeleteRequests(refused), "delete"),
                  cfg, k, RemoveAt(objs, scan.deleted), scan.scanned)

\* the refused event.delete() calls among the objects the scan went through
Refused(objs, uid, failing, scanned) ==
    Cardinality({i \in failing : i <= scanned /\ Carries(objs[i], uid)})

\* CalDAVAccount.delete_event on the calendar k; fault: the server fails
\* calendar.events(); failing: the positions whose event.delete() it refuses
DeleteInCalendar(cfg, k, objs, calendar_url, uid, fault, failing) ==
    IF k = 0
    THEN Raised(CalendarNotFound(calendar_url), <<>>, cfg, 0, <<>>, 0)
    ELSE IF fault
    THEN Raised(ServerError, <<"events">>, cfg, k, objs, 0)
    ELSE DeleteResult(cfg, k, objs, uid, DeleteLoop(objs, 1, uid, failing),
                      Refused(objs, uid, failing,
                              DeleteLoop(objs, 1, uid, failing).scanned))

AccountDeleteEvent(account, k, calendar_url, uid, st, fault, failing) ==
    DeleteInCalendar(account.cfg, k, Content(st, account, k), calendar_url, uid,
                     fault, failing)

\* delete_event_tool from the account the resolver gave
DeleteForAccount(account, accounts, calendar_url, uid, st, fault, failing) ==
    IF account = NoAccount
    THEN Raised(NoAccountMessage(accounts, calendar_url), <<>>, 0, 0, <<>>, 0)
    ELSE AccountDeleteEvent(account, get_calendar_by_url(account, calendar_url),
                            calendar_url, uid, st, fault, failing)

delete_event_tool(accounts, calendar_url, uid, st, fault, failing) ==
    DeleteForAccount(find_account_for_calendar(accounts, calendar_url), accounts,
                     calendar_url, uid, st, fault, failing)

(***************************************************************************)
(* State.                                                                  *)
(***************************************************************************)
VARIABLES
    _accounts,   \* server.py: the global list of initialised accounts
    call,        \* per invocation slot: where the handler is, and its local accounts
    store,       \* the servers: the content of each calendar of each account
    last,        \* the handler that ended in the latest step, if one did
    started,     \* invocations started so far
    failedInit,  \* history: some initialize_accounts has raised
    afterFail,   \* history: the slot's invocation began after such a failure
    issued,      \* the uids uuid4 has given out
    normRun,     \* an application of _normalize_url, once and twice
    resolveRun,  \* an application of find_account_for_calendar
    listRun      \* an application of the list_events parse loop

vars == <<_accounts, call, store, last, started, failedInit, afterFail, issued,
          normRun, resolveRun, listRun>>

pureVars == <<normRun, resolveRun, listRun>>

Idle == [pc |-> "idle", inv |-> 0, idx |-> 0, accounts |-> <<>>]

Ended(inv, op, accounts, calendar_url, uid, summary, start, end, failing, pre, out) ==
    [inv |-> inv, op |-> op, accounts |-> accounts, calendar_url |-> calendar_url,
     uid |-> uid, summary |-> summary, start |-> start, end |-> end,
     failing |-> failing, pre |-> pre, out |-> out]

NoneEnded ==
    Ended(0, None, <<>>, Absent, Absent, None, Absent, Absent, {}, <<>>,
          Raised(NoMessage, <<>>, 0, 0, <<>>, 0))

NormRun(step, url, once, twice) ==
    [step |-> step, url |-> url, once |-> once, twice |-> twice]
ResolveRun(step, accounts, url, found) ==
    [step |-> step, accounts |-> accounts, url |-> url, found |-> found]
ListRun(step, objs, result) == [step |-> step, objs |-> objs, result |-> result]

NoNormRun == NormRun(0, <<>>, <<>>, <<>>)
NoResolveRun == ResolveRun(0, <<>>, <<>>, NoAccount)
NoListRun == ListRun(0, <<>>, <<>>)

InitialContents ==
    { <<>>, <<ObjGarbage, ObjOld>>, <<ObjOld, ObjSeries, ObjOld>> }

\* the servers' calendars, account 1's holding content
StoreWith(content) ==
    [i \in Configs |->
        [k \in 1..Len(SrvCalendars(i)) |-> IF i = 1 THEN content ELSE <<ObjOld>>]]

\* the process has started and no handler has run
Fresh ==
    /\ _accounts = <<>>
    /\ call = [c \in Calls |-> Idle]
    /\ last = NoneEnded
    /\ started = 0
    /\ failedInit = FALSE
    /\ afterFail = [c \in Calls |-> FALSE]
    /\ issued = {}

Init ==
    /\ Fresh
    /\ \E content \in InitialContents : store = StoreWith(content)
    /\ normRun = NoNormRun
    /\ resolveRun = NoResolveRun
    /\ listRun = NoListRun

(***************************************************************************)
(* initialize_accounts, as each tool handler runs it first.                *)
(***************************************************************************)
\* "if _accounts:" -- a non-empty list
AlreadyInitialized(registry) == registry # <<>>

\* the slot of an invocation that takes the registry as it is
Taking(inv, registry) ==
    [pc |-> "ready", inv |-> inv, idx |-> 0, accounts |-> registry]

\* the slot of an invocation that awaits the connect of account idx
Connecting(inv, idx, built) ==
    [pc |-> "connecting", inv |-> inv, idx |-> idx, accounts |-> built]

\* the handler is invoked: initialize_accounts returns the registry at once, or
\* starts an empty local list and awaits the connect of the first account
Entered(inv, registry) ==
    IF AlreadyInitialized(registry)
    THEN Taking(inv, registry)
    ELSE Connecting(inv, 1, <<>>)

Start(c) ==
    /\ call[c].pc = "idle"
    /\ started < MaxInvocations
    /\ started' = started + 1
    /\ call' = [call EXCEPT ![c] = Entered(started + 1, _accounts)]
    /\ afterFail' = [afterFail EXCEPT ![c] = failedInit]
    /\ last' = NoneEnded
    /\ UNCHANGED <<_accounts, store, failedInit, issued, pureVars>>

\* variant: the global is assigned after each connect
Mut_RegistryAfter_each(registry, built, idx) == built

\* the global after the connect of account idx was appended to the local list:
\* "_accounts = accounts" follows the loop
RegistryAfter(registry, built, idx) ==
    IF idx = NumAccounts THEN built ELSE registry

\* the slot after that connect: the next account's connect, or the return
Connected(inv, idx, built) ==
    IF idx = NumAccounts THEN Taking(inv, built) ELSE Connecting(inv, idx + 1, built)

\* the awaited connect succeeds and the account is appended
Appended(c, built) ==
    /\ _accounts' = RegistryAfter(_accounts, built, call[c].idx)
    /\ call' = [call EXCEPT ![c] = Connected(call[c].inv, call[c].idx, built)]

ConnectOk(c) ==
    /\ call[c].pc = "connecting"
    /\ Appended(c, Append(call[c].accounts,
                          ConnectedAccount(call[c].idx, call[c].inv)))
    /\ last' = NoneEnded
    /\ UNCHANGED <<store, started, failedInit, afterFail, issued, pureVars>>

ConnectError(i) == Message("Failed to connect", AccountName(i), <<>>)

\* the awaited connect raises: the exception leaves initialize_accounts and the
\* handler
ConnectFail(c) ==
    /\ call[c].pc = "connecting"
    /\ failedInit' = TRUE
    /\ last' = Ended(call[c].inv, "initialize_accounts", call[c].accounts, Absent,
                     Absent, None, Absent, Absent, {}, <<>>,
                     Raised(ConnectError(call[c].idx), <<>>, 0, 0, <<>>, 0))
    /\ call' = [call EXCEPT ![c] = Idle]
    /\ UNCHANGED <<_accounts, store, started, afterFail, issued, pureVars>>

(***************************************************************************)
(* The four tool handlers, from the point where initialize_accounts has    *)
(* returned the handler's accounts.                                        *)
(***************************************************************************)
\* the calendar content the outcome leaves on the servers
Saved(st, out) ==
    IF out.cfg = 0 \/ out.cal = 0 THEN st
    ELSE [st EXCEPT ![out.cfg][out.cal] = out.objs]

Before(st, out) == IF out.cfg = 0 \/ out.cal = 0 THEN <<>> ELSE st[out.cfg][out.cal]

\* variant: a handler that changed a calendar drops the cached accounts
Mut_EndHandler_invalidate(c, op, calendar_url, uid, summary, start, end, failing, out) ==
    /\ last' = Ended(call[c].inv, op, call[c].accounts, calendar_url, uid, summary,
                     start, end, failing, Before(store, out), out)
    /\ store' = Saved(store, out)
    /\ call' = [call EXCEPT ![c] = Idle]
    /\ _accounts' = IF Saved(store, out) # store THEN <<>> ELSE _accounts
    /\ UNCHANGED <<started, failedInit, afterFail, pureVars>>

\* the handler of slot c ends with outcome out
EndHandler(c, op, calendar_url, uid, summary, start, end, failing, out) ==
    /\ last' = Ended(call[c].inv, op, call[c].accounts, calendar_url, uid, summary,
                     start, end, failing, Before(store, out), out)
    /\ store' = Saved(store, out)
    /\ call' = [call EXCEPT ![c] = Idle]
    /\ UNCHANGED <<_accounts, started, failedInit, afterFail, pureVars>>

ListCalendars(c) ==
    /\ call[c].pc = "ready"
    /\ EndHandler(c, "list_calendars", Absent, Absent, None, Absent, Absent, {},
                  Returned(list_calendars_tool(call[c].accounts, 1, 1), <<>>, 0, 0,
                           <<>>, 0))
    /\ UNCHANGED issued

ListEvents(c, url, start, end, fault) ==
    /\ call[c].pc = "ready"
    /\ EndHandler(c, "list_events", url, Absent, None, start, end, {},
                  list_events_tool(call[c].accounts, url, start, end, store, fault))
    /\ UNCHANGED issued

\* uuid.uuid4() is reached once the calendar is open
Issued(out, uid) == IF out.cal # 0 THEN {uid} ELSE {}

\* uid: the value uuid.uuid4() gives, one that was not given before
CreateEvent(c, url, summary, start, end, fault) ==
    /\ call[c].pc = "ready"
    /\ \E uid \in UuidSpace \ issued :
          /\ EndHandler(c, "create_event", url, Absent, summary, start, end, {},
                        create_event_tool(call[c].accounts, url, summary, start,
                                          end, None, None, store, fault, uid,
                                          call[c].inv))
          /\ issued' = issued \cup Issued(last'.out, uid)

\* the positions of the calendar the url resolves to whose object carries uid
Deletable(accounts, url, uid, st) ==
    {i \in 1..Len(Before(st, delete_event_tool(accounts, url, uid, st, TRUE, {}))) :
        Carries(Before(st, delete_event_tool(accounts, url, uid, st, TRUE, {}))[i],
                uid)}

DeleteEvent(c, url, uid, fault) ==
    /\ call[c].pc = "ready"
    /\ \E failing \in SUBSET Deletable(call[c].accounts, url, uid, store) :
          EndHandler(c, "delete_event", url, uid, None, Absent, Absent, failing,
                     delete_event_tool(call[c].accounts, url, uid, store, fault,
                                       failing))
    /\ UNCHANGED issued

(***************************************************************************)
(* Spec: tool invocations that overlap, from process start.  The handlers  *)
(* run with few arguments; ToolsSpec varies them.                          *)
(***************************************************************************)
Next ==
    \E c \in Calls :
        \/ Start(c)
        \/ ConnectOk(c)
        \/ ConnectFail(c)
        \/ ListCalendars(c)
        \/ \E url \in {UrlA, UrlUnknown} : ListEvents(c, url, Iso(0), Absent, FALSE)
        \/ CreateEvent(c, UrlA, "Standup", Iso(0), Iso(1), FALSE)
        \/ \E uid \in {<<"A">>} \cup issued : DeleteEvent(c, UrlA, uid, FALSE)

Spec == Init /\ [][Next]_vars

\* C1: once the registry is initialised, no step connects an account again
\* and no step changes the registry, however many invocations overlap.
C1_InitializedOnce ==
    [][AlreadyInitialized(_accounts) =>
          /\ _accounts' = _accounts
          /\ \A c \in Calls : call[c].pc = "connecting" => call'[c] = call[c]]_vars

\* the registry holds no account or one connected account per configured one
AllOrNothing ==
    \/ _accounts = <<>>
    \/ /\ Len(_accounts) = NumAccounts
       /\ \A i \in Configs : _accounts[i].cfg = i /\ _accounts[i].connected

\* C2: when a connect fails, initialize_accounts raises and the registry is
\* empty; the registry never holds a part of the accounts.
C2_FailureLeavesEmpty ==
    /\ AllOrNothing
    /\ last.op = "initialize_accounts" => ~last.out.ok /\ _accounts = <<>>

\* C10: no invocation that begins after an initialisation failure obtains an
\* initialised account set.
C10_FailureIsFatal ==
    \A c \in Calls : afterFail[c] => call[c].pc # "ready"

\* C10, as the code behaves: a connect failure ends its own invocation only and
\* leaves the registry as it was; an invocation that begins on an empty
\* registry, after a failure too, connects from the first account on; an
\* invocation obtains an account set only with every account connected, and
\* the one that connected the last account publishes that set.
C10_FailureIsRetried ==
    [][\A c \in Calls :
          /\ (call[c].pc = "connecting" /\ last'.op = "initialize_accounts"
                 /\ last'.inv = call[c].inv)
                => (_accounts' = _accounts /\ call'[c] = Idle
                       /\ \A d \in Calls \ {c} : call'[d] = call[d])
          /\ (call[c].pc = "idle" /\ call'[c].pc # "idle" /\ _accounts = <<>>)
                => call'[c] = Connecting(call'[c].inv, 1, <<>>)
          /\ call'[c].pc = "ready" => Len(call'[c].accounts) = NumAccounts
          /\ (call[c].pc = "connecting" /\ call'[c].pc = "ready")
                => _accounts' = call'[c].accounts]_vars

\* an invocation that began after a failure holds the initialised accounts
C10_RetrySucceeded ==
    \E c \in Calls :
        /\ afterFail[c]
        /\ call[c].pc = "ready"
        /\ Len(call[c].accounts) = NumAccounts
        /\ \A i \in Configs : call[c].accounts[i].obj = call[c].inv
        /\ _accounts = call[c].accounts

(***************************************************************************)
(* ToolsSpec: the handlers, one invocation after the other, over the       *)
(* argument sets, on a registry that an earlier invocation initialised.    *)
(***************************************************************************)
Summaries == {"Standup"}
CreateTimes ==
    {se \in {<<Iso(s), Iso(e)>> : s \in Times, e \in 1..(MaxTime + 1)} :
        FromIso(se[1]) < FromIso(se[2])}
    \cup {<<BadDate, Iso(1)>>}

ToolsInit ==
    /\ _accounts = [i \in Configs |-> ConnectedAccount(i, 0)]
    /\ call = [c \in Calls |-> Idle]
    /\ \E content \in InitialContents \cup {<<ObjNoEnd, ObjTimezone>>} :
          store = StoreWith(content)
    /\ last = NoneEnded
    /\ started = 0
    /\ failedInit = FALSE
    /\ afterFail = [c \in Calls |-> FALSE]
    /\ issued = {}
    /\ normRun = NoNormRun
    /\ resolveRun = NoResolveRun
    /\ listRun = NoListRun

\* a server fault is tried with one choice of the other arguments
ToolsNext ==
    \/ Start(1)
    \/ ListCalendars(1)
    \/ \E url \in ToolUrls, start \in DateArgs, end \in DateArgs \cup {Absent} :
          ListEvents(1, url, start, end, FALSE)
    \/ ListEvents(1, UrlA, Iso(0), Absent, TRUE)
    \/ \E end \in {Absent, Iso(LastDay)} :
          ListEvents(1, UrlA, Iso(LastDay - MaxTime), end, FALSE)
    \/ \E url \in ToolUrls, summary \in Summaries, se \in CreateTimes :
          CreateEvent(1, url, summary, se[1], se[2], FALSE)
    \/ CreateEvent(1, UrlA, "Standup", Iso(0), Iso(1), TRUE)
    \/ \E url \in ToolUrls, uid \in DeleteUids : DeleteEvent(1, url, uid, FALSE)
    \/ DeleteEvent(1, UrlA, <<"A">>, TRUE)

ToolsSpec == ToolsInit /\ [][ToolsNext]_vars

\* the objects of content that carry uid
Carrying(content, uid) == {i \in 1..Len(content) : Carries(content[i], uid)}

\* the objects of content that create_event wrote
Created(content) == {i \in 1..Len(content) : content[i].origin > 0}

\* the end of the listed range: the given end, or the default after the start
RangeEnd(start, end) ==
    IF end = Absent THEN FromIso(start) + DefaultRangeDays ELSE FromIso(end)

\* the listing shows the event of object o as it was created
Shown(listing, o) ==
    \E n \in 1..Len(listing) :
        /\ listing[n].uid = o.comps[1].uid
        /\ listing[n].summary = o.comps[1].summary
        /\ listing[n].start = Iso(o.comps[1].dtstart)
        /\ listing[n].end = Iso(o.comps[1].dtend)

\* C6 (a): a create_event that succeeds returns a uid that no event of the
\* calendar carried and appends one event with the given summary, start and end.
C6_Create ==
    (last.op = "create_event" /\ last.out.ok) =>
        /\ Carrying(last.pre, last.out.value) = {}
        /\ Len(last.out.objs) = Len(last.pre) + 1
        /\ SubSeq(last.out.objs, 1, Len(last.pre)) = last.pre
        /\ last.out.objs[Len(last.out.objs)].comps =
              <<Component("VEVENT", last.out.value, last.summary,
                          FromIso(last.start), FromIso(last.end), None, None)>>

\* C6 (b): a list_events that succeeds shows every created event that its range
\* covers, with the uid, summary, start and end of the creation, and shows no
\* uid that the calendar does not hold.
C6_List ==
    (last.op = "list_events" /\ last.out.ok) =>
        /\ \A i \in Created(last.pre) :
              (FromIso(last.start) <= last.pre[i].comps[1].dtstart
                  /\ last.pre[i].comps[1].dtend <= RangeEnd(last.start, last.end))
                 => Shown(last.out.value, last.pre[i])
        /\ \A n \in 1..Len(last.out.value) :
              Carrying(last.pre, last.out.value[n].uid) # {}

\* C6 (c): a delete_event of a created uid, with no server failure, succeeds
\* and leaves no event with that uid on the calendar.
C6_Delete ==
    (last.op = "delete_event" /\ last.failing = {}
        /\ Carrying(last.pre, last.uid) \cap Created(last.pre) # {}
        /\ last.out.message.text # ServerError.text) =>
        /\ last.out.ok
        /\ Carrying(last.out.objs, last.uid) = {}
        /\ Len(last.out.objs) = Len(last.pre) - 1

C7_NotFound ==
    (last.op = "delete_event" /\ last.out.cal # 0
        /\ Carrying(last.pre, last.uid) = {}) =>
        /\ ~last.out.ok
        /\ last.out.objs = last.pre
        /\ store[last.out.cfg][last.out.cal] = last.pre
        /\ \A r \in 1..Len(last.out.requests) : last.out.requests[r] # "delete"
        /\ last.out.message.text # ServerError.text =>
              /\ last.out.message.text = EventNotFoundText
              /\ last.out.message.quoted = last.uid
              /\ last.out.scanned = Len(last.pre)

\* a calendar with events was scanned for a uid that none of them carries
C7_ScannedAll ==
    /\ last.op = "delete_event"
    /\ last.out.cal # 0
    /\ Len(last.pre) > 1
    /\ Carrying(last.pre, last.uid) = {}
    /\ last.out.message.text = EventNotFoundText
    /\ last.out.scanned = Len(last.pre)

\* C9: list_events, create_event and delete_event with a url that resolves to
\* no account end with an error that lists every known calendar url, without
\* a request to a server and without a change of a calendar.
C9_UnresolvedListsUrls ==
    (last.op \in {"list_events", "create_event", "delete_event"}
        /\ find_account_for_calendar(last.accounts, last.calendar_url) = NoAccount) =>
        /\ ~last.out.ok
        /\ last.out.message.text = NoAccountText
        /\ last.out.requests = <<>>
        /\ last.out.cal = 0
        /\ \A i \in 1..Len(last.accounts) :
              \A k \in 1..Len(last.accounts[i].calendars) :
                 \E n \in 1..Len(last.out.message.listed) :
                    last.out.message.listed[n] = last.accounts[i].calendars[k].url

\* the arguments of the list_events that ended reach the date parsing and parse
ParsedDates ==
    /\ last.op = "list_events"
    /\ find_account_for_calendar(last.accounts, last.calendar_url) # NoAccount
    /\ IsIso(last.start)
    /\ last.end # Absent => IsIso(last.end)

\* C11: list_events with a start that parses, and an end that parses or is
\* left out, sends one date_search whose range begins at the parsed start and
\* ends at the parsed end, or 30 days after the start when no end is given.
C11_DefaultEnd ==
    ParsedDates =>
        /\ last.out.requests = <<"date_search">>
        /\ last.out.query = <<FromIso(last.start), RangeEnd(last.start, last.end)>>

\* as C11, for the starts whose default end is a datetime
DefaultEndInRange ==
    (ParsedDates /\ RangeEnd(last.start, last.end) <= LastDay) =>
        /\ last.out.requests = <<"date_search">>
        /\ last.out.query = <<FromIso(last.start), RangeEnd(last.start, last.end)>>

\* the registry a successful initialisation published
Initialized == [i \in Configs |-> ConnectedAccount(i, 0)]

\* C12: after a successful initialisation, whatever handlers ran and however
\* they ended, the registry holds the same accounts with the same cached
\* calendars, every handler is given that registry, and list_calendars
\* returns the calendars cached at initialisation.
C12_ReadOnly ==
    /\ _accounts = Initialized
    /\ \A c \in Calls : call[c].pc = "ready" => call[c].accounts = Initialized
    /\ last.op # "None" => last.accounts = Initialized
    /\ last.op = "list_calendars" =>
          (last.out.ok /\ last.out.value = list_calendars_tool(Initialized, 1, 1))

\* list_calendars ran after a handler changed a calendar on its server
C12_ListedAfterChange ==
    /\ last.op = "list_calendars"
    /\ last.inv > 1
    /\ Created(store[1][1]) \cup Created(store[2][2]) # {}
    /\ Len(last.out.value) > 1
    /\ last.out.value = list_calendars_tool(Initialized, 1, 1)

(***************************************************************************)
(* UrlSpec: _normalize_url applied once and once more to a drawn url.      *)
(***************************************************************************)
UrlPrefixes ==
    { <<>>, HTTP, HTTPS, <<"H", "T", "T", "P", ":", "/", "/">>,
      <<"h", "t", "t", "p", ":", "/">>, <<"f", "t", "p", ":", "/", "/">> }
UrlChars == {"/", "a", ";", "?", "#"}
Bodies == UNION {[1..m -> UrlChars] : m \in 0..MaxBody}
UrlInputs == {p \o b : p \in UrlPrefixes, b \in Bodies}

MainIdle ==
    /\ Fresh
    /\ store = StoreWith(<<>>)

UrlInit ==
    /\ MainIdle
    /\ \E u \in UrlInputs : normRun = NormRun(0, u, <<>>, <<>>)
    /\ resolveRun = NoResolveRun
    /\ listRun = NoListRun

mainVars == <<_accounts, call, store, last, started, failedInit, afterFail, issued>>

NormalizeOnce ==
    /\ normRun.step = 0
    /\ normRun' = NormRun(1, normRun.url, _normalize_url(normRun.url), <<>>)
    /\ UNCHANGED <<mainVars, resolveRun, listRun>>

NormalizeTwice ==
    /\ normRun.step = 1
    /\ normRun' = NormRun(2, normRun.url, normRun.once, _normalize_url(normRun.once))
    /\ UNCHANGED <<mainVars, resolveRun, listRun>>

UrlNext == NormalizeOnce \/ NormalizeTwice

UrlSpec == UrlInit /\ [][UrlNext]_vars

\* C4: normalising a normalised url changes nothing.
C4_Idempotent == normRun.step = 2 => normRun.twice = normRun.once

\* an absolute http url was reduced to a path, and normalised once more
C4_ReducedTwice ==
    /\ normRun.step = 2
    /\ StartsWith(normRun.url, HTTP)
    /\ normRun.once # normRun.url
    /\ Len(normRun.once) > 1

\* the characters that end the host, and those that end the path, of a url
HostEnd == {"/", "?", "#"}
PathEnd == {"?", "#"}
Without(s, chars) == \A i \in 1..Len(s) : s[i] \notin chars

\* url is scheme://host, then path, then nothing or a query or a fragment
IsAbsoluteWithPath(url, scheme, h, n) ==
    /\ StartsWith(url, scheme)
    /\ Len(scheme) + h + n <= Len(url)
    /\ Without(SubSeq(url, Len(scheme) + 1, Len(scheme) + h), HostEnd)
    /\ n > 0
    /\ url[Len(scheme) + h + 1] = "/"
    /\ Without(SubSeq(url, Len(scheme) + h + 1, Len(scheme) + h + n), PathEnd)
    /\ Len(scheme) + h + n < Len(url) => url[Len(scheme) + h + n + 1] \in PathEnd

\* C5: an absolute http(s) url and the path-only url of its path normalise to
\* the same text.
C5_SamePath ==
    normRun.step >= 1 =>
        \A scheme \in {HTTP, HTTPS} :
            \A h \in 1..Len(normRun.url), n \in 1..Len(normRun.url) :
                IsAbsoluteWithPath(normRun.url, scheme, h, n) =>
                    normRun.once =
                        _normalize_url(SubSeq(normRun.url, Len(scheme) + h + 1,
                                              Len(scheme) + h + n))

(***************************************************************************)
(* ResolveSpec: find_account_for_calendar applied to a drawn list of       *)
(* accounts and a drawn url.                                               *)
(***************************************************************************)
PoolUrls == { <<"/", "a">>, HTTP \o <<"x", "/", "a">>, <<"/", "b">> }
ResolveUrls ==
    { <<"/", "a">>, HTTP \o <<"x", "/", "a">>, HTTPS \o <<"y", "/", "b">>,
      <<"/", "z">> }
UrlLists == UNION {[1..m -> PoolUrls] : m \in 0..MaxCals}
DrawnAccount(i, urls) ==
    [cfg |-> i, obj |-> 0, name |-> AccountName(i), connected |-> TRUE,
     calendars |-> [k \in 1..Len(urls) |->
                       CalendarInfo("Cal", urls[k], AccountName(i))]]
AccountLists(n) ==
    {[i \in 1..n |-> DrawnAccount(i, pick[i])] : pick \in [1..n -> UrlLists]}

ResolveInit ==
    /\ MainIdle
    /\ normRun = NoNormRun
    /\ \E n \in 1..NumAccounts : \E accounts \in AccountLists(n) :
         \E u \in ResolveUrls :
            resolveRun = ResolveRun(0, accounts, u, NoAccount)
    /\ listRun = NoListRun

Resolve ==
    /\ resolveRun.step = 0
    /\ resolveRun' = ResolveRun(1, resolveRun.accounts, resolveRun.url,
                                find_account_for_calendar(resolveRun.accounts,
                                                          resolveRun.url))
    /\ UNCHANGED <<mainVars, normRun, listRun>>

ResolveNext == Resolve

ResolveSpec == ResolveInit /\ [][ResolveNext]_vars

\* the positions of the accounts with a calendar whose normalised url is the
\* normalised calendar_url
Owners(accounts, calendar_url) ==
    {i \in 1..Len(accounts) :
        \E k \in 1..Len(accounts[i].calendars) :
            _normalize_url(accounts[i].calendars[k].url) =
                _normalize_url(calendar_url)}

Least(S) == CHOOSE i \in S : \A j \in S : i <= j

\* C3: find_account_for_calendar returns the first account, in list order,
\* that has a calendar whose normalised url equals the normalised input, and
\* none exactly when no account has one.
C3_FirstOwner ==
    resolveRun.step = 1 =>
        /\ (resolveRun.found = NoAccount) =
              (Owners(resolveRun.accounts, resolveRun.url) = {})
        /\ Owners(resolveRun.accounts, resolveRun.url) # {} =>
              resolveRun.found =
                 resolveRun.accounts[Least(Owners(resolveRun.accounts,
                                                  resolveRun.url))]

\* two accounts own the url, in different forms, and the first was returned
C3_TwoOwners ==
    /\ resolveRun.step = 1
    /\ Cardinality(Owners(resolveRun.accounts, resolveRun.url)) > 1
    /\ resolveRun.found.cfg = 1
    /\ \A k \in 1..Len(resolveRun.found.calendars) :
          resolveRun.found.calendars[k].url # resolveRun.url

(***************************************************************************)
(* ListSpec: the parse loop of list_events applied to a drawn sequence of  *)
(* calendar objects, as a server may return them.                          *)
(***************************************************************************)
ObjNew == Object("ical", <<Component("VEVENT", <<"D">>, "New", 1, 2, "Notes", None)>>, 0)
ObjLate ==
    Object("ical", <<Component("VEVENT", <<"E">>, "Open", 0, NoTime, None, None),
                     Component("VEVENT", <<"E">>, "Late", 1, 2, None, None)>>, 0)
ObjKinds == {ObjGarbage, ObjTimezone, ObjOld, ObjNoEnd, ObjSeries, ObjNew, ObjLate}
ObjectLists == UNION {[1..m -> ObjKinds] : m \in 0..MaxObjs}

ListInit ==
    /\ MainIdle
    /\ normRun = NoNormRun
    /\ resolveRun = NoResolveRun
    /\ \E objs \in ObjectLists : listRun = ListRun(0, objs, <<>>)

ParseAll ==
    /\ listRun.step = 0
    /\ listRun' = ListRun(1, listRun.objs, ListLoop(listRun.objs, 1, UrlA, <<>>))
    /\ UNCHANGED <<mainVars, normRun, resolveRun>>

ListNext == ParseAll

ListSpec == ListInit /\ [][ListNext]_vars


\* the object cannot be parsed, or one of its events cannot be extracted
Failing(o) ==
    \/ o.data = "garbage"
    \/ \E j \in 1..Len(o.comps) : o.comps[j].name = "VEVENT" /\ ~Extractable(o.comps[j])

\* the events of the object, in the order of its components
RECURSIVE EventsOf(_, _)
EventsOf(o, j) ==
    IF j > Len(o.comps) THEN <<>>
    ELSE IF o.comps[j].name # "VEVENT" THEN EventsOf(o, j + 1)
    ELSE <<EventInfo(GetUid(o.comps[j].uid), GetStr(o.comps[j].summary),
                     o.comps[j].dtstart, o.comps[j].dtend, UrlA,
                     StrOrNone(o.comps[j].description),
                     StrOrNone(o.comps[j].location))>> \o EventsOf(o, j + 1)

\* the events of the objects that do not fail, in the order of the objects
RECURSIVE Remaining(_, _)
Remaining(objs, i) ==
    IF i > Len(objs) THEN <<>>
    ELSE IF Failing(objs[i]) THEN Remaining(objs, i + 1)
    ELSE EventsOf(objs[i], 1) \o Remaining(objs, i + 1)

\* the events from position i on that could be extracted
RECURSIVE Extracted(_, _)
Extracted(objs, i) ==
    IF i > Len(objs) THEN 0
    ELSE Extracted(objs, i + 1) +
         IF objs[i].data = "garbage" THEN 0
         ELSE Cardinality({j \in 1..Len(objs[i].comps) :
                  objs[i].comps[j].name = "VEVENT" /\ Extractable(objs[i].comps[j])})

\* sub, from position i on, is found in order in full, from position j on
RECURSIVE IsSubsequence(_, _, _, _)
IsSubsequence(sub, i, full, j) ==
    IF i > Len(sub) THEN TRUE
    ELSE IF j > Len(full) THEN FALSE
    ELSE IF sub[i] = full[j] THEN IsSubsequence(sub, i + 1, full, j + 1)
    ELSE IsSubsequence(sub, i, full, j + 1)

\* C8: the parse loop ends with a result for every sequence of objects; the
\* result holds every event of the objects that do not fail, in the order the
\* server returned them, and nothing that was not extracted; when no object
\* fails in part, it holds those events only.
C8_SkipsMalformed ==
    listRun.step = 1 =>
        /\ IsSubsequence(Remaining(listRun.objs, 1), 1, listRun.result, 1)
        /\ Len(listRun.result) <= Extracted(listRun.objs, 1)
        /\ (\A i \in 1..Len(listRun.objs) :
               Failing(listRun.objs[i]) =>
                  (listRun.objs[i].data = "garbage"
                      \/ ~Extractable(listRun.objs[i].comps[1])))
              => listRun.result = Remaining(listRun.objs, 1)

\* events before and after an unparseable object and a failing one were listed
C8_ListedAround ==
    /\ listRun.step = 1
    /\ Len(listRun.objs) = 3
    /\ ~Failing(listRun.objs[1])
    /\ Failing(listRun.objs[2])
    /\ ~Failing(listRun.objs[3])
    /\ listRun.objs[1] # listRun.objs[3]
    /\ Len(listRun.result) = 2
    /\ listRun.result[1].uid = listRun.objs[1].comps[1].uid
    /\ listRun.result[2].uid = listRun.objs[3].comps[1].uid
(***************************************************************************)
(* delete_event under ToolsSpec: what a delete that reports success left   *)
(* on the servers.                                                         *)
(***************************************************************************)
\* the step ends a delete_event that succeeded, and the calendar of that
\* handler lost its first entry that carries the uid and nothing else, no
\* other calendar changed, and the scan went no further than that entry
RemovedFirst ==
    /\ Carrying(last'.pre, last'.uid) # {}
    /\ last'.pre = store[last'.out.cfg][last'.out.cal]
    /\ store' = [store EXCEPT ![last'.out.cfg][last'.out.cal] =
                    RemoveAt(last'.pre, Least(Carrying(last'.pre, last'.uid)))]
    /\ last'.out.scanned = Least(Carrying(last'.pre, last'.uid))

\* C13: a delete_event that succeeds removes exactly the first entry, in the
\* server's order, whose VEVENT carries the uid, and returns at once; every
\* other entry of the calendar and every other calendar is left as it was.
C13_RemovesFirstMatch ==
    [][(last'.op = "delete_event" /\ last'.out.ok) => RemovedFirst]_vars

\* as C13, for the deletes in which the server refused no event.delete()
RemovesFirstWhenAccepted ==
    [][(last'.op = "delete_event" /\ last'.out.ok /\ last'.failing = {})
          => RemovedFirst]_vars

=============================================================================
